---- MODULE Spec2Model ----
(***************************************************************************)
(* Lucky-Draw-Management (src/app.py): the three tables of init_db, and    *)
(* the request handlers add_event, add_participant, delete_participant and *)
(* draw_winner.  Every execute_query call is one step: it opens its own    *)
(* connection, runs one statement, commits (or rolls back and raises) and  *)
(* closes.  A handler is a sequence of such steps; handlers of different   *)
(* requests interleave between steps.                                      *)
(***************************************************************************)
EXTENDS FiniteSets, Integers, Sequences, TLC

\* ---------------------------------------------------------------- bounds
\* AUTO_INCREMENT keys are handed out up to these values.
MaxEventId == 2
MaxParticipantId == 2
MaxWinnerId == 2

\* Worker threads serving requests.
Workers == {"w1", "w2"}

EventIds == 1..MaxEventId
ParticipantIds == 1..MaxParticipantId
EventNames == {"Spring Fest"}
PrizeNames == {"Grand Prize", "Second Prize"}

\* Form values of contact_info, one character per element.
Digits == {"0", "1", "2", "3", "4", "5", "6", "7", "8", "9"}
\* A decimal digit outside ASCII (ARABIC-INDIC DIGIT THREE), which \d of a
\* str pattern matches as well.
UnicodeDigits == {"u0663"}
Contacts ==
    { <<"+", "9", "1", "9", "8", "7", "6", "5", "4", "3", "2", "1", "0">>,
      <<"9", "8", "7", "6", "5", "4", "3", "2", "1", "0">>,
      <<"+", "9", "1", "9", "8", "7", "6", "5", "4", "3", "2", "1", "0", "\n">>,
      <<"+", "9", "1", "9", "8", "7", "6", "5", "4", "3", "2", "1", "u0663">> }

VARIABLES
    events,             \* rows of table events: [event_id, name]
    participants,       \* rows of table participants: [participant_id, event_id]
    winners,            \* rows of table winners: [winner_id, event_id, participant_id, prize_name]
    nextEventId,        \* AUTO_INCREMENT counter of events
    nextParticipantId,  \* AUTO_INCREMENT counter of participants
    nextWinnerId,       \* AUTO_INCREMENT counter of winners
    req,                \* per worker: the request it is serving and where it stands
    before,             \* history: the tables when the latest request began or returned
    awarded,            \* history: <<event_id, prize_name, participant_id>> of every successful draw
    message,            \* src/msg.py: what became of the winner notification
    call                \* per worker: the execute_query call it is in, and its connection

vars == <<events, participants, winners, nextEventId, nextParticipantId,
          nextWinnerId, req, before, awarded, message, call>>

Tables == [events |-> events, participants |-> participants, winners |-> winners]

\* ------------------------------------------------------- SQL statements
\* re.match(r'^\+91\d{10}$', contact): '$' also matches before a final newline.
MatchContact(contact) ==
    /\ Len(contact) \in {13, 14}
    /\ Len(contact) = 14 => contact[14] = "\n"
    /\ contact[1] = "+"
    /\ contact[2] = "9"
    /\ contact[3] = "1"
    /\ \A i \in 4..13 : contact[i] \in Digits \cup UnicodeDigits

\* Mutant: the event id is compared with the wrong column.
SelectExisting_WrongColumn(ws, event_id, prize_name) ==
    {w \in ws : w.participant_id = event_id /\ w.prize_name = prize_name}

\* Mutant: the WHERE event_id = %s filter is missing.
SelectExisting_AnyEvent(ws, event_id, prize_name) ==
    {w \in ws : w.prize_name = prize_name}

\* SELECT winner_id FROM winners WHERE event_id = %s AND prize_name = %s
SelectExisting(ws, event_id, prize_name) ==
    {w \in ws : w.event_id = event_id /\ w.prize_name = prize_name}

\* Mutant: the HAVING COUNT(w.winner_id) = 0 filter is missing.
SelectEligible_NoHaving(ps, ws, event_id) ==
    {p \in ps : p.event_id = event_id}

\* Mutant: the WHERE p.event_id = %s filter is missing.
SelectEligible_AnyEvent(ps, ws, event_id) ==
    {p \in ps :
        Cardinality({w \in ws : /\ w.participant_id = p.participant_id
                                /\ w.event_id = event_id}) = 0}

\* Mutant: the query returns only the eligible row with the lowest id, as if
\* it ended in ORDER BY p.participant_id LIMIT 1.
SelectEligible_FirstOnly(ps, ws, event_id) ==
    {p \in ps :
        /\ p.event_id = event_id
        /\ Cardinality({w \in ws : /\ w.participant_id = p.participant_id
                                   /\ w.event_id = event_id}) = 0
        /\ \A q \in ps :
              (/\ q.event_id = event_id
               /\ Cardinality({w \in ws : /\ w.participant_id = q.participant_id
                                          /\ w.event_id = event_id}) = 0)
              => p.participant_id <= q.participant_id}

\* SELECT ... FROM participants p LEFT JOIN winners w
\*   ON p.participant_id = w.participant_id AND w.event_id = %s
\*   WHERE p.event_id = %s GROUP BY ... HAVING COUNT(w.winner_id) = 0
SelectEligible(ps, ws, event_id) ==
    {p \in ps :
        /\ p.event_id = event_id
        /\ Cardinality({w \in ws : /\ w.participant_id = p.participant_id
                                   /\ w.event_id = event_id}) = 0}

\* Mutant: the participants table has no foreign key to events.
ParticipantForeignKeysHold_Unchecked(es, event_id) == TRUE

\* FOREIGN KEY (event_id) REFERENCES events(event_id) of participants
ParticipantForeignKeysHold(es, event_id) ==
    \E e \in es : e.event_id = event_id

\* FOREIGN KEY (event_id) REFERENCES events(event_id),
\* FOREIGN KEY (participant_id) REFERENCES participants(participant_id) of winners
WinnerForeignKeysHold(es, ps, event_id, participant_id) ==
    /\ \E e \in es : e.event_id = event_id
    /\ \E p \in ps : p.participant_id = participant_id

\* DELETE FROM winners WHERE event_id = %s
WinnersWithoutEvent(ws, event_id) ==
    {w \in ws : w.event_id # event_id}

\* Mutant: the participant_id = %s condition is missing.
WinnersWithoutParticipant_WholeEvent(ws, participant_id, event_id) ==
    {w \in ws : w.event_id # event_id}

\* DELETE FROM winners WHERE participant_id = %s AND event_id = %s
WinnersWithoutParticipant(ws, participant_id, event_id) ==
    {w \in ws : ~(w.participant_id = participant_id /\ w.event_id = event_id)}

\* DELETE FROM participants WHERE event_id = %s
ParticipantsWithoutEvent(ps, event_id) ==
    {p \in ps : p.event_id # event_id}

\* Mutant: the two parameters are bound in the wrong order.
ParticipantsWithout_Swapped(ps, participant_id, event_id) ==
    {p \in ps : ~(p.participant_id = event_id /\ p.event_id = participant_id)}

\* DELETE FROM participants WHERE participant_id = %s AND event_id = %s
ParticipantsWithout(ps, participant_id, event_id) ==
    {p \in ps : ~(p.participant_id = participant_id /\ p.event_id = event_id)}

\* DELETE FROM events WHERE event_id = %s
EventsWithout(es, event_id) ==
    {e \in es : e.event_id # event_id}

\* Mutant: the participants foreign key neither cascades nor restricts.
CascadeParticipants_None(ps, event_id) == ps

\* FOREIGN KEY (event_id) REFERENCES events(event_id) ON DELETE CASCADE:
\* deleting an events row deletes the participants rows of that event.
CascadeParticipants(ps, event_id) ==
    {p \in ps : p.event_id # event_id}

\* Mutant: the winners table has no foreign keys.
NoWinnerOrphaned_Unchecked(es, ps, ws) == TRUE

\* The winners foreign keys have no ON DELETE clause (RESTRICT): a statement
\* that would leave a winner row pointing at a missing participant or event
\* fails as a whole.
NoWinnerOrphaned(es, ps, ws) ==
    \A w \in ws : WinnerForeignKeysHold(es, ps, w.event_id, w.participant_id)

\* ---------------------------------------------------------------- state
\* A worker outside execute_query: conn, result = None, None.
NoCall ==
    [pc |-> "idle", conn |-> "none", commit |-> FALSE, fetch_one |-> FALSE,
     error |-> "none", result |-> "none"]

Idle ==
    [op |-> "none", pc |-> "idle", event_id |-> 0, participant_id |-> 0,
     prize_name |-> "", event_name |-> "", contact |-> <<>>, outcome |-> "",
     raised |-> ""]

Init ==
    /\ events = {}
    /\ participants = {}
    /\ winners = {}
    /\ nextEventId = 1
    /\ nextParticipantId = 1
    /\ nextWinnerId = 1
    /\ req = [w \in Workers |-> Idle]
    /\ before = [events |-> {}, participants |-> {}, winners |-> {}]
    /\ awarded = {}
    /\ message = "none"
    /\ call = [w \in Workers |-> NoCall]

AllIdle == \A w \in Workers : req[w].pc = "idle"

\* Draw requests that may still insert a winner row.
DrawsInFlight ==
    Cardinality({w \in Workers : req[w].op = "draw" /\ req[w].pc \in {"select", "insert"}})

Done(r, outcome) == [r EXCEPT !.pc = "done", !.outcome = outcome]

\* Mutant: the except clause reports the failure as an empty draw.
Raised_AsNoEligible(r, statement) ==
    [r EXCEPT !.pc = "done", !.outcome = "none", !.raised = statement]

\* execute_query raised in `statement` (raise err), and the handler's
\* except clause flashed its error message.
Raised(r, statement) ==
    [r EXCEPT !.pc = "done", !.outcome = "error", !.raised = statement]


\* -------------------------------------------------------------- handlers
\* add_event, branch 'event_name' in request.form:
\*   INSERT INTO events (name, event_date) VALUES (%s, %s)
AddEvent(w, event_name, fail) ==
    /\ req[w].pc = "idle"
    /\ ~fail => nextEventId <= MaxEventId
    /\ IF fail
         THEN /\ req' = [req EXCEPT ![w] =
                    Raised([Idle EXCEPT !.op = "add_event", !.event_name = event_name], "insert")]
              /\ UNCHANGED <<events, nextEventId>>
         ELSE /\ events' = events \cup {[event_id |-> nextEventId, name |-> event_name]}
              /\ nextEventId' = nextEventId + 1
              /\ req' = [req EXCEPT ![w] =
                    Done([Idle EXCEPT !.op = "add_event", !.event_name = event_name,
                                      !.event_id = nextEventId], "added")]
    /\ UNCHANGED <<participants, winners, nextParticipantId, nextWinnerId>>

\* add_participant, POST: the phone check, then
\*   INSERT INTO participants (event_id, name, contact_info) VALUES (%s, %s, %s)
AddParticipant(w, event_id, contact, fail) ==
    /\ req[w].pc = "idle"
    /\ LET r == [Idle EXCEPT !.op = "add_participant", !.event_id = event_id,
                             !.contact = contact]
       IN  IF ~MatchContact(contact)
             THEN /\ ~fail
                  /\ req' = [req EXCEPT ![w] = Done(r, "invalid")]
                  /\ UNCHANGED <<participants, nextParticipantId>>
             ELSE IF fail \/ ~ParticipantForeignKeysHold(events, event_id)
             THEN /\ req' = [req EXCEPT ![w] = Raised(r, "insert")]
                  /\ UNCHANGED <<participants, nextParticipantId>>
             ELSE /\ nextParticipantId <= MaxParticipantId
                  /\ participants' = participants \cup
                        {[participant_id |-> nextParticipantId, event_id |-> event_id]}
                  /\ nextParticipantId' = nextParticipantId + 1
                  /\ req' = [req EXCEPT ![w] =
                        Done([r EXCEPT !.participant_id = nextParticipantId], "added")]
    /\ UNCHANGED <<events, winners, nextEventId, nextWinnerId>>

\* add_event, branch 'delete_event_id' in request.form, statement 1:
\*   DELETE FROM winners WHERE event_id = %s
DeleteEventWinners(w, event_id, fail) ==
    /\ req[w].pc = "idle"
    /\ LET r == [Idle EXCEPT !.op = "delete_event", !.event_id = event_id]
       IN  IF fail
             THEN /\ req' = [req EXCEPT ![w] = Raised(r, "winners")]
                  /\ UNCHANGED winners
             ELSE /\ winners' = WinnersWithoutEvent(winners, event_id)
                  /\ req' = [req EXCEPT ![w] = [r EXCEPT !.pc = "participants"]]
    /\ UNCHANGED <<events, participants, nextEventId, nextParticipantId,
                   nextWinnerId>>

\* statement 2: DELETE FROM participants WHERE event_id = %s
DeleteEventParticipants(w, fail) ==
    /\ req[w].op = "delete_event"
    /\ req[w].pc = "participants"
    /\ LET left == ParticipantsWithoutEvent(participants, req[w].event_id)
       IN  IF fail \/ ~NoWinnerOrphaned(events, left, winners)
             THEN /\ req' = [req EXCEPT ![w] = Raised(req[w], "participants")]
                  /\ UNCHANGED participants
             ELSE /\ participants' = left
                  /\ req' = [req EXCEPT ![w].pc = "event"]
    /\ UNCHANGED <<events, winners, nextEventId, nextParticipantId, nextWinnerId>>

\* statement 3: DELETE FROM events WHERE event_id = %s
\* (participants.event_id is ON DELETE CASCADE)
DeleteEventRow(w, fail) ==
    /\ req[w].op = "delete_event"
    /\ req[w].pc = "event"
    /\ LET es == EventsWithout(events, req[w].event_id)
           ps == CascadeParticipants(participants, req[w].event_id)
       IN  IF fail \/ ~NoWinnerOrphaned(es, ps, winners)
             THEN /\ req' = [req EXCEPT ![w] = Raised(req[w], "event")]
                  /\ UNCHANGED <<events, participants>>
             ELSE /\ events' = es
                  /\ participants' = ps
                  /\ req' = [req EXCEPT ![w] = Done(req[w], "deleted")]
    /\ UNCHANGED <<winners, nextEventId, nextParticipantId, nextWinnerId>>

\* delete_participant, statement 1:
\*   DELETE FROM winners WHERE participant_id = %s AND event_id = %s
DeleteParticipantWinners(w, event_id, participant_id, fail) ==
    /\ req[w].pc = "idle"
    /\ LET r == [Idle EXCEPT !.op = "delete_participant", !.event_id = event_id,
                             !.participant_id = participant_id]
       IN  IF fail
             THEN /\ req' = [req EXCEPT ![w] = Raised(r, "winners")]
                  /\ UNCHANGED winners
             ELSE /\ winners' = WinnersWithoutParticipant(winners, participant_id, event_id)
                  /\ req' = [req EXCEPT ![w] = [r EXCEPT !.pc = "participant"]]
    /\ UNCHANGED <<events, participants, nextEventId, nextParticipantId,
                   nextWinnerId>>

\* statement 2:
\*   DELETE FROM participants WHERE participant_id = %s AND event_id = %s
DeleteParticipantRow(w, fail) ==
    /\ req[w].op = "delete_participant"
    /\ req[w].pc = "participant"
    /\ LET left == ParticipantsWithout(participants, req[w].participant_id, req[w].event_id)
       IN  IF fail \/ ~NoWinnerOrphaned(events, left, winners)
             THEN /\ req' = [req EXCEPT ![w] = Raised(req[w], "participant")]
                  /\ UNCHANGED participants
             ELSE /\ participants' = left
                  /\ req' = [req EXCEPT ![w] = Done(req[w], "deleted")]
    /\ UNCHANGED <<events, winners, nextEventId, nextParticipantId, nextWinnerId>>

\* draw_winner, POST, statement 1: the existing-winner check.
DrawCheck(w, event_id, prize_name, fail) ==
    /\ req[w].pc = "idle"
    /\ nextWinnerId + DrawsInFlight <= MaxWinnerId
    /\ LET r == [Idle EXCEPT !.op = "draw", !.event_id = event_id,
                             !.prize_name = prize_name]
       IN  req' = [req EXCEPT ![w] =
                IF fail THEN Raised(r, "check")
                ELSE IF SelectExisting(winners, event_id, prize_name) # {}
                THEN Done(r, "already")
                ELSE [r EXCEPT !.pc = "select"]]
    /\ UNCHANGED <<events, participants, winners, nextEventId, nextParticipantId,
                   nextWinnerId>>

\* statement 2: one eligible participant, ORDER BY RAND() LIMIT 1.
DrawSelect(w, fail) ==
    /\ req[w].op = "draw"
    /\ req[w].pc = "select"
    /\ LET eligible == SelectEligible(participants, winners, req[w].event_id)
       IN  IF fail
             THEN req' = [req EXCEPT ![w] = Raised(req[w], "select")]
             ELSE IF eligible = {}
             THEN req' = [req EXCEPT ![w] = Done(req[w], "none")]
             ELSE \E winner \in eligible :
                    req' = [req EXCEPT ![w].pc = "insert",
                                       ![w].participant_id = winner.participant_id]
    /\ UNCHANGED <<events, participants, winners, nextEventId, nextParticipantId,
                   nextWinnerId>>

\* Mutant: the INSERT is executed twice and stores two rows.
DrawInsert_Twice(w, fail) ==
    /\ req[w].op = "draw"
    /\ req[w].pc = "insert"
    /\ IF fail \/ ~WinnerForeignKeysHold(events, participants,
                                         req[w].event_id, req[w].participant_id)
         THEN /\ req' = [req EXCEPT ![w] = Raised(req[w], "insert")]
              /\ UNCHANGED <<winners, nextWinnerId>>
         ELSE /\ winners' = winners \cup
                    {[winner_id |-> nextWinnerId + k, event_id |-> req[w].event_id,
                      participant_id |-> req[w].participant_id,
                      prize_name |-> req[w].prize_name] : k \in {0, 1}}
              /\ nextWinnerId' = nextWinnerId + 1
              /\ req' = [req EXCEPT ![w] = Done(req[w], "won")]
    /\ UNCHANGED <<events, participants, nextEventId, nextParticipantId>>

\* statement 3:
\*   INSERT INTO winners (event_id, participant_id, prize_name) VALUES (%s, %s, %s)
DrawInsert(w, fail) ==
    /\ req[w].op = "draw"
    /\ req[w].pc = "insert"
    /\ IF fail \/ ~WinnerForeignKeysHold(events, participants,
                                         req[w].event_id, req[w].participant_id)
         THEN /\ req' = [req EXCEPT ![w] = Raised(req[w], "insert")]
              /\ UNCHANGED <<winners, nextWinnerId>>
         ELSE /\ winners' = winners \cup
                    {[winner_id |-> nextWinnerId, event_id |-> req[w].event_id,
                      participant_id |-> req[w].participant_id,
                      prize_name |-> req[w].prize_name]}
              /\ nextWinnerId' = nextWinnerId + 1
              /\ req' = [req EXCEPT ![w] = Done(req[w], "won")]
    /\ UNCHANGED <<events, participants, nextEventId, nextParticipantId>>

\* The handler returns its redirect or page; the worker is free again.
Return(w) ==
    /\ req[w].pc = "done"
    /\ req' = [req EXCEPT ![w] = Idle]
    /\ UNCHANGED <<events, participants, winners, nextEventId, nextParticipantId,
                   nextWinnerId>>

\* ------------------------------------------------------- specifications
\* Requests served concurrently: the statements of different handlers
\* interleave.  The history variables are not kept.
Next ==
    \E w \in Workers, fail \in BOOLEAN :
        \/ \E event_name \in EventNames :
                AddEvent(w, event_name, fail) /\ UNCHANGED <<before, awarded, message, call>>
        \/ \E event_id \in EventIds, contact \in Contacts :
                AddParticipant(w, event_id, contact, fail) /\ UNCHANGED <<before, awarded, message, call>>
        \/ \E event_id \in EventIds :
                DeleteEventWinners(w, event_id, fail) /\ UNCHANGED <<before, awarded, message, call>>
        \/ DeleteEventParticipants(w, fail) /\ UNCHANGED <<before, awarded, message, call>>
        \/ DeleteEventRow(w, fail) /\ UNCHANGED <<before, awarded, message, call>>
        \/ \E event_id \in EventIds, participant_id \in ParticipantIds :
                DeleteParticipantWinners(w, event_id, participant_id, fail)
                    /\ UNCHANGED <<before, awarded, message, call>>
        \/ DeleteParticipantRow(w, fail) /\ UNCHANGED <<before, awarded, message, call>>
        \/ \E event_id \in EventIds, prize_name \in PrizeNames :
                DrawCheck(w, event_id, prize_name, fail) /\ UNCHANGED <<before, awarded, message, call>>
        \/ DrawSelect(w, fail) /\ UNCHANGED <<before, awarded, message, call>>
        \/ DrawInsert(w, fail) /\ UNCHANGED <<before, awarded, message, call>>
        \/ Return(w) /\ UNCHANGED <<before, awarded, message, call>>

Spec == Init /\ [][Next]_vars

\* Requests served one at a time (section 5 of the specification): a request
\* begins only when no other is in progress.  `before` holds the tables as
\* the request found them, `awarded` every draw that succeeded so far.
Begin == AllIdle /\ before' = Tables /\ UNCHANGED <<awarded, message, call>>

Record(w) ==
    awarded' = IF req'[w].outcome = "won"
                 THEN awarded \cup {<<req[w].event_id, req[w].prize_name,
                                      req[w].participant_id>>}
                 ELSE awarded

SeqNext ==
    \E w \in Workers, fail \in BOOLEAN :
        \/ \E event_name \in EventNames : Begin /\ AddEvent(w, event_name, fail)
        \/ \E event_id \in EventIds, contact \in Contacts :
                Begin /\ AddParticipant(w, event_id, contact, fail)
        \/ \E event_id \in EventIds : Begin /\ DeleteEventWinners(w, event_id, fail)
        \/ DeleteEventParticipants(w, fail) /\ UNCHANGED <<before, awarded, message, call>>
        \/ DeleteEventRow(w, fail) /\ UNCHANGED <<before, awarded, message, call>>
        \/ \E event_id \in EventIds, participant_id \in ParticipantIds :
                Begin /\ DeleteParticipantWinners(w, event_id, participant_id, fail)
        \/ DeleteParticipantRow(w, fail) /\ UNCHANGED <<before, awarded, message, call>>
        \/ \E event_id \in EventIds, prize_name \in PrizeNames :
                Begin /\ DrawCheck(w, event_id, prize_name, fail)
        \/ DrawSelect(w, fail) /\ UNCHANGED <<before, awarded, message, call>>
        \/ DrawInsert(w, fail) /\ UNCHANGED <<before, message, call>> /\ Record(w)
        \/ Return(w) /\ before' = Tables /\ UNCHANGED <<awarded, message, call>>

SeqSpec == Init /\ [][SeqNext]_vars

\* Mutant: a notification that fails takes the winners back.
SendMessage_UndoesDraw(ok) ==
    /\ message' = IF ok THEN "sent" ELSE "failed"
    /\ winners' = IF ok THEN winners ELSE {}
    /\ UNCHANGED <<events, participants, nextEventId, nextParticipantId,
                   nextWinnerId, req, before, awarded, call>>

\* src/msg.py, run on its own: client.messages.create(...) returns the message
\* (its sid is printed) or raises.  It reads and writes no table.
SendMessage(ok) ==
    /\ message' = IF ok THEN "sent" ELSE "failed"
    /\ UNCHANGED <<events, participants, winners, nextEventId, nextParticipantId,
                   nextWinnerId, req, before, awarded, call>>

\* Requests served one at a time, and the notification script run at any
\* moment, any number of times, or never.
MsgNext ==
    \/ SeqNext
    \/ \E ok \in BOOLEAN : SendMessage(ok)

MsgSpec == Init /\ [][MsgNext]_vars

\* ------------------------------------------------------------ execute_query
\* One call of execute_query by each worker, statement by statement. Only the
\* connection handling is followed; the effect of the statement on the tables
\* is what the handlers above describe.
OtherThanCall ==
    <<events, participants, winners, nextEventId, nextParticipantId,
      nextWinnerId, req, before, awarded, message>>

\* def execute_query(query, params=None, fetch_one=False, commit=False):
\*     conn, result = None, None
Call(w, commit, fetch_one) ==
    /\ call[w].pc = "idle"
    /\ call' = [call EXCEPT ![w] = [NoCall EXCEPT !.pc = "connect",
                                                  !.commit = commit,
                                                  !.fetch_one = fetch_one]]
    /\ UNCHANGED OtherThanCall

\* conn = get_db_connection(): returns a connection, or raises ValueError or
\* FileNotFoundError (environment, certificate file), or pymysql.Error
\* (pymysql.connect failed); when it raises, conn is still None.
Connect(w, outcome) ==
    /\ call[w].pc = "connect"
    /\ call' = [call EXCEPT ![w] =
            CASE outcome = "ok"      -> [@ EXCEPT !.conn = "open", !.pc = "execute"]
              [] outcome = "env"     -> [@ EXCEPT !.error = "env", !.pc = "except_env"]
              [] outcome = "pymysql" -> [@ EXCEPT !.error = "pymysql", !.pc = "except_db"]]
    /\ UNCHANGED OtherThanCall

\* with conn.cursor() as cursor: cursor.execute(query, params); it may raise
\* pymysql.Error, or an exception neither except clause names (TypeError
\* while formatting the parameters).
Execute(w, outcome) ==
    /\ call[w].pc = "execute"
    /\ call' = [call EXCEPT ![w] =
            CASE outcome = "ok"      -> [@ EXCEPT !.pc = "result"]
              [] outcome = "pymysql" -> [@ EXCEPT !.error = "pymysql", !.pc = "except_db"]
              [] outcome = "other"   -> [@ EXCEPT !.error = "other", !.pc = "finally"]]
    /\ UNCHANGED OtherThanCall

\* if commit: conn.commit(); result = True
\* elif fetch_one: result = cursor.fetchone()  else: result = cursor.fetchall()
TakeResult(w, fail) ==
    /\ call[w].pc = "result"
    /\ call' = [call EXCEPT ![w] =
            IF fail
              THEN [@ EXCEPT !.error = "pymysql", !.pc = "except_db"]
              ELSE [@ EXCEPT !.pc = "finally",
                             !.result = IF call[w].commit THEN "True"
                                        ELSE IF call[w].fetch_one THEN "row"
                                        ELSE "rows"]]
    /\ UNCHANGED OtherThanCall

\* except pymysql.Error as err: if conn: conn.rollback(); raise err
\* (the rollback itself may raise on a lost connection)
ExceptDatabase(w, rollback_fails) ==
    /\ call[w].pc = "except_db"
    /\ rollback_fails => call[w].conn = "open"
    /\ call' = [call EXCEPT ![w] =
            [@ EXCEPT !.pc = "finally",
                      !.error = IF rollback_fails THEN "rollback" ELSE "pymysql"]]
    /\ UNCHANGED OtherThanCall

\* except (ValueError, FileNotFoundError) as env_err: raise env_err
ExceptEnvironment(w) ==
    /\ call[w].pc = "except_env"
    /\ call' = [call EXCEPT ![w].pc = "finally"]
    /\ UNCHANGED OtherThanCall

\* Mutant: the connection is closed at the end of the try block, not in a
\* finally clause.
Finally_OnSuccessOnly(w) ==
    /\ call[w].pc = "finally"
    /\ call' = [call EXCEPT ![w] =
            [@ EXCEPT !.conn = IF call[w].conn = "open" /\ call[w].error = "none"
                                 THEN "closed" ELSE call[w].conn,
                      !.pc = IF call[w].error = "none" THEN "returned" ELSE "raised"]]
    /\ UNCHANGED OtherThanCall

\* finally: if conn: conn.close()
\* then return result, or the exception leaves the call.
Finally(w) ==
    /\ call[w].pc = "finally"
    /\ call' = [call EXCEPT ![w] =
            [@ EXCEPT !.conn = IF call[w].conn = "open" THEN "closed" ELSE call[w].conn,
                      !.pc = IF call[w].error = "none" THEN "returned" ELSE "raised"]]
    /\ UNCHANGED OtherThanCall

\* The caller goes on; the locals of the call are gone.
Leave(w) ==
    /\ call[w].pc \in {"returned", "raised"}
    /\ call' = [call EXCEPT ![w] = NoCall]
    /\ UNCHANGED OtherThanCall

ConnNext ==
    \E w \in Workers :
        \/ \E commit, fetch_one \in BOOLEAN : Call(w, commit, fetch_one)
        \/ \E outcome \in {"ok", "env", "pymysql"} : Connect(w, outcome)
        \/ \E outcome \in {"ok", "pymysql", "other"} : Execute(w, outcome)
        \/ \E fail \in BOOLEAN : TakeResult(w, fail)
        \/ \E rollback_fails \in BOOLEAN : ExceptDatabase(w, rollback_fails)
        \/ ExceptEnvironment(w)
        \/ Finally(w)
        \/ Leave(w)

ConnSpec == Init /\ [][ConnNext]_vars



\* ---------------------------------------------------------------- claims
\* Vocabulary of the claims, written on the rows themselves.
RowsOfPrize(ws, event_id, prize_name) ==
    {r \in ws : r.event_id = event_id /\ r.prize_name = prize_name}

RowsOfParticipant(ws, event_id, participant_id) ==
    {r \in ws : r.event_id = event_id /\ r.participant_id = participant_id}

NotYetWon(ps, ws, event_id) ==
    {p \in ps : p.event_id = event_id
                /\ RowsOfParticipant(ws, event_id, p.participant_id) = {}}

Finished(w, op) == req[w].pc = "done" /\ req[w].op = op

\* C1: with requests served one at a time, right after a draw(E, P) that
\* succeeded exactly one winners row with (E, P) exists; and a draw(E, P) that
\* found such a row leaves the winners table as it was and, unless its check
\* statement itself failed in storage, ends with 'prize already drawn'.
C1_OneRowThenAlreadyDrawn ==
    \A w \in Workers :
        Finished(w, "draw") =>
            /\ req[w].outcome = "won" =>
                  Cardinality(RowsOfPrize(winners, req[w].event_id, req[w].prize_name)) = 1
            /\ RowsOfPrize(before.winners, req[w].event_id, req[w].prize_name) # {} =>
                  /\ winners = before.winners
                  /\ req[w].outcome \in {"already", "error"}
                  /\ req[w].outcome = "error" => req[w].participant_id = 0

C1_Witness ==
    \E w \in Workers :
        /\ Finished(w, "draw")
        /\ req[w].outcome = "already"
        /\ Cardinality(RowsOfPrize(before.winners, req[w].event_id, req[w].prize_name)) = 1

\* C2: with requests served one at a time, no participant is the participant
\* of two winners rows of one event.
C2_ParticipantWinsOnce ==
    \A event_id \in EventIds, participant_id \in ParticipantIds :
        Cardinality(RowsOfParticipant(winners, event_id, participant_id)) <= 1

C2_Witness ==
    \E w \in Workers :
        /\ Finished(w, "draw")
        /\ req[w].outcome \in {"won", "none"}
        /\ \E r \in before.winners : r.event_id = req[w].event_id

\* C3: under concurrent draws at most one winners row exists for an
\* (event, prize name) pair.
C3_OneRowPerPrize ==
    \A event_id \in EventIds, prize_name \in PrizeNames :
        Cardinality(RowsOfPrize(winners, event_id, prize_name)) <= 1

\* C4: under concurrent draws for different prizes of one event, no
\* participant holds two prizes of that event.
C4_NoTwoPrizesForOneParticipant ==
    \A r1 \in winners, r2 \in winners :
        (r1.event_id = r2.event_id /\ r1.participant_id = r2.participant_id)
            => r1.prize_name = r2.prize_name

\* C5: with requests served one at a time, a draw(E, P) that found no winners
\* row for (E, P) and no participant of E without a prize leaves the three
\* tables as they were and, unless a statement of it failed in storage, ends
\* with 'no eligible participants'.
C5_EmptyEligibleSet ==
    \A w \in Workers :
        ( /\ Finished(w, "draw")
          /\ RowsOfPrize(before.winners, req[w].event_id, req[w].prize_name) = {}
          /\ NotYetWon(before.participants, before.winners, req[w].event_id) = {} )
        => /\ Tables = before
           /\ req[w].outcome \in {"none", "error"}
           /\ req[w].outcome = "error" => req[w].participant_id = 0

\* The case where every participant of E has already won.
C5_Witness ==
    \E w \in Workers :
        /\ Finished(w, "draw")
        /\ req[w].outcome = "none"
        /\ \E p \in before.participants : p.event_id = req[w].event_id
        /\ NotYetWon(before.participants, before.winners, req[w].event_id) = {}

\* C6: in every reachable state of the concurrent system each winners row
\* names a participant row whose event is the winners row's event.
C6_WinnerOfSameEvent ==
    \A r \in winners :
        \E p \in participants :
            p.participant_id = r.participant_id /\ p.event_id = r.event_id

\* A delete-participant whose second statement met the winners row a
\* concurrent draw had inserted for that participant.
C6_Witness ==
    \E w \in Workers :
        /\ Finished(w, "delete_participant")
        /\ req[w].outcome = "error"
        /\ RowsOfParticipant(winners, req[w].event_id, req[w].participant_id) # {}

\* C7: whenever a delete-event request for E completes successfully, also
\* among concurrent requests, the tables it leaves hold no events row, no
\* participants row and no winners row with E's id.
C7_EventGone ==
    [][ \A w \in Workers :
            ( /\ req[w].op = "delete_event"
              /\ req[w].pc = "event"
              /\ req'[w].outcome = "deleted" )
            => /\ \A e \in events' : e.event_id # req[w].event_id
               /\ \A p \in participants' : p.event_id # req[w].event_id
               /\ \A r \in winners' : r.event_id # req[w].event_id ]_vars

\* The event had a participant: a concurrent draw had selected it, and its
\* insert came after the deletion.
C7_Witness ==
    \E w \in Workers, d \in Workers :
        /\ Finished(w, "delete_event")
        /\ req[w].outcome = "deleted"
        /\ Finished(d, "draw")
        /\ req[d].outcome = "error"
        /\ req[d].participant_id # 0
        /\ req[d].event_id = req[w].event_id
        /\ nextEventId > req[w].event_id
        /\ \A e \in events : e.event_id # req[w].event_id

\* C8: with requests served one at a time, once a delete-participant request
\* for a participant X of event E has completed successfully, no participants
\* row has X's id and no winners row names X.
C8_ParticipantGone ==
    \A w \in Workers :
        ( /\ Finished(w, "delete_participant")
          /\ req[w].outcome = "deleted"
          /\ \E p \in before.participants :
                p.participant_id = req[w].participant_id /\ p.event_id = req[w].event_id )
        => /\ \A p \in participants : p.participant_id # req[w].participant_id
           /\ \A r \in winners : r.participant_id # req[w].participant_id

\* The participant had won a prize before the deletion.
C8_Witness ==
    \E w \in Workers :
        /\ Finished(w, "delete_participant")
        /\ req[w].outcome = "deleted"
        /\ \E p \in before.participants :
                p.participant_id = req[w].participant_id /\ p.event_id = req[w].event_id
        /\ \E r \in before.winners : r.participant_id = req[w].participant_id

\* C9 as stated: over any sequence of requests, the draws that succeeded for
\* one (E, P) all chose the same participant, as long as E exists.
C9_PrizeAwardedToOneParticipant ==
    \A a \in awarded, b \in awarded :
        ( /\ a[1] = b[1]
          /\ a[2] = b[2]
          /\ \E e \in events : e.event_id = a[1] )
        => a[3] = b[3]

\* C9, amended: with requests served one at a time, a draw for (E, P) succeeds
\* only when no winners row for (E, P) exists; so once a draw for (E, P) has
\* succeeded for X, no later draw for (E, P) succeeds for another participant
\* while X's winners row exists.
C9_NoSecondAwardWhileRowExists ==
    [][ \A w \in Workers :
            (req[w].pc = "insert" /\ req'[w].outcome = "won") =>
                RowsOfPrize(winners, req[w].event_id, req[w].prize_name) = {} ]_vars

\* Two draws for one (E, P) succeeded for different participants: the first
\* winner was deleted in between.
C9_Witness ==
    \E a \in awarded, b \in awarded :
        a[1] = b[1] /\ a[2] = b[2] /\ a[3] # b[3]

\* C10: with requests served one at a time, a delete-event or
\* delete-participant request that ended in a storage failure left the three
\* tables as they were when it began.
C10_FailedDeletionChangesNothing ==
    \A w \in Workers :
        ( /\ req[w].pc = "done"
          /\ req[w].op \in {"delete_event", "delete_participant"}
          /\ req[w].outcome = "error" )
        => Tables = before


\* C11: whenever a statement of a draw raises a storage error, the request
\* ends at once with the error outcome, which is none of 'prize already
\* drawn', 'no eligible participants' and the winner announcement, and the
\* winners table is as it was; when the raising statement is the check or the
\* selection, no participant was selected and no insert was attempted.
C11_StorageErrorAbortsDraw ==
    [][ \A w \in Workers :
            ( /\ req'[w].op = "draw"
              /\ req[w].raised = ""
              /\ req'[w].raised # "" )
            => /\ req'[w].pc = "done"
               /\ req'[w].outcome = "error"
               /\ req'[w].outcome \notin {"already", "none", "won"}
               /\ winners' = winners
               /\ nextWinnerId' = nextWinnerId
               /\ req'[w].raised \in {"check", "select"} =>
                     /\ req[w].pc # "insert"
                     /\ req'[w].participant_id = 0 ]_vars

\* The selection of a draw raised while a participant was eligible.
C11_Witness ==
    \E w \in Workers :
        /\ Finished(w, "draw")
        /\ req[w].raised = "select"
        /\ NotYetWon(participants, winners, req[w].event_id) # {}


\* '+91' followed by exactly ten decimal digits 0..9 and nothing else.
ExactContact(contact) ==
    /\ Len(contact) = 13
    /\ contact[1] = "+" /\ contact[2] = "9" /\ contact[3] = "1"
    /\ \A i \in 4..13 :
          contact[i] \in {"0", "1", "2", "3", "4", "5", "6", "7", "8", "9"}

\* C12: with requests served one at a time, a register-participant request
\* adds a row only for a contact that is exactly '+91' and ten decimal digits;
\* for such a contact, unless the insert raised, it adds exactly one row, for
\* the selected event; for any other contact it ends with the validation
\* message and the participants table is as it was.
C12_AcceptedIffExactContact ==
    \A w \in Workers :
        Finished(w, "add_participant") =>
            /\ req[w].outcome = "added" => ExactContact(req[w].contact)
            /\ (ExactContact(req[w].contact) /\ req[w].raised = "") =>
                  /\ req[w].outcome = "added"
                  /\ \E p \in participants :
                        /\ p.event_id = req[w].event_id
                        /\ p \notin before.participants
                        /\ participants = before.participants \cup {p}
            /\ ~ExactContact(req[w].contact) =>
                  /\ req[w].outcome = "invalid"
                  /\ participants = before.participants


\* C13: no two rows of the events table have the same name, and an add-event
\* request whose name is that of an existing event adds no row.
C13_EventNamesUnique ==
    /\ \A e1 \in events, e2 \in events : e1.name = e2.name => e1.event_id = e2.event_id
    /\ \A w \in Workers :
          ( /\ Finished(w, "add_event")
            /\ \E e \in before.events : e.name = req[w].event_name )
          => events = before.events


\* C14: a step of the notification, successful or failed, leaves the winners
\* table as it was, and a winners row disappears only in a step of a
\* delete-participant or delete-event request.
C14_NotificationKeepsWinners ==
    [][ /\ message' # message => winners' = winners
        /\ \A r \in winners :
              r \notin winners' =>
                 \E w \in Workers :
                    /\ req'[w] # req[w]
                    /\ req'[w].op \in {"delete_participant", "delete_event"} ]_vars

\* A winners row stands after a notification that failed.
C14_Witness ==
    /\ message = "failed"
    /\ winners # {}


\* C15: the participant a draw selects is, in the state of the selection, a
\* participant of the drawn event without a winners row in it, and the row a
\* successful draw inserts names that participant; and every such participant
\* can be the one the selection returns.
C15_SelectionIsExactlyTheEligible ==
    /\ [][ \A w \in Workers :
              /\ (req[w].pc = "select" /\ req'[w].pc = "insert") =>
                    \E p \in NotYetWon(participants, winners, req[w].event_id) :
                        p.participant_id = req'[w].participant_id
              /\ (req[w].pc = "insert" /\ req'[w].outcome = "won") =>
                    \E r \in winners' :
                        /\ winners' = winners \cup {r}
                        /\ r \notin winners
                        /\ r.event_id = req[w].event_id
                        /\ r.prize_name = req[w].prize_name
                        /\ r.participant_id = req[w].participant_id ]_vars
    /\ [](\A w \in Workers :
              (req[w].op = "draw" /\ req[w].pc = "select") =>
                  \A p \in NotYetWon(participants, winners, req[w].event_id) :
                      ENABLED ( /\ DrawSelect(w, FALSE)
                                /\ req'[w].pc = "insert"
                                /\ req'[w].participant_id = p.participant_id ))

\* A selection made among two eligible participants.
C15_Witness ==
    \E w \in Workers :
        /\ req[w].op = "draw"
        /\ req[w].pc = "insert"
        /\ Cardinality(NotYetWon(participants, winners, req[w].event_id)) = 2


\* C16: in every reachable state, the states between the statements of a
\* deletion and under interleaving with draws and registrations included,
\* every winners row references an existing participant and an existing event,
\* and every participants row references an existing event.
C16_ReferentialIntegrity ==
    /\ \A r \in winners :
          /\ \E p \in participants : p.participant_id = r.participant_id
          /\ \E e \in events : e.event_id = r.event_id
    /\ \A p \in participants :
          \E e \in events : e.event_id = p.event_id

\* A deletion of an event stands between two of its statements while a draw
\* in the same event has selected a participant and not yet inserted its row,
\* and rows that reference other rows exist.
C16_Witness ==
    \E d, w \in Workers :
        /\ req[d].op = "delete_event"
        /\ req[d].pc \in {"participants", "event"}
        /\ req[w].op = "draw"
        /\ req[w].pc = "insert"
        /\ req[w].event_id = req[d].event_id
        /\ \E e \in events : e.event_id = req[d].event_id
        /\ participants # {}
        /\ winners # {}


\* C17: prize names are unique per event only. A draw(E2, P) ends with
\* 'prize already drawn' only when a winners row with (E2, P) exists, whatever
\* rows other events have for P; and its selection depends on the winners rows
\* of E2 alone: it ends with 'no eligible participants' only when every
\* participant of E2 has a winners row in E2, and otherwise selects a
\* participant of E2 without one.
C17_PrizeScopedToEvent ==
    [][ \A w \in Workers :
          LET rowsOfEvent == {r \in winners : r.event_id = req'[w].event_id}
              free == {p \in participants :
                          /\ p.event_id = req'[w].event_id
                          /\ \A r \in rowsOfEvent :
                                r.participant_id # p.participant_id}
          IN  /\ ( /\ req[w].pc = "idle"
                   /\ req'[w].op = "draw"
                   /\ req'[w].outcome = "already" )
                 => \E r \in rowsOfEvent : r.prize_name = req'[w].prize_name
              /\ ( /\ req[w].pc = "select"
                   /\ req'[w].outcome = "none" )
                 => free = {}
              /\ ( /\ req[w].pc = "select"
                   /\ req'[w].pc = "insert" )
                 => \E p \in free : p.participant_id = req'[w].participant_id ]_vars

\* The same prize name has been drawn in two different events.
C17_Witness ==
    \E w \in Workers :
        /\ Finished(w, "draw")
        /\ req[w].outcome = "won"
        /\ \E r1, r2 \in winners :
              /\ r1.event_id # r2.event_id
              /\ r1.prize_name = r2.prize_name
              /\ r2.event_id = req[w].event_id
              /\ r2.prize_name = req[w].prize_name
              /\ r2.participant_id = req[w].participant_id
              /\ r1.winner_id < r2.winner_id


\* C18: winners rows are created only by a draw. A step of add-event,
\* register-participant, delete-participant or delete-event adds no winners
\* row; a step of a draw adds a row only as its insert statement, one row at
\* most in the whole request, and leaves the events and participants tables
\* as they are.
C18_OnlyDrawCreatesWinners ==
    [][ \A w \in Workers :
          /\ ( /\ req'[w] # req[w]
               /\ req'[w].op \in {"add_event", "add_participant",
                                  "delete_participant", "delete_event"} )
             => winners' \subseteq winners
          /\ ( /\ req'[w] # req[w]
               /\ req'[w].op = "draw" )
             => /\ events' = events
                /\ participants' = participants
                /\ winners \subseteq winners'
                /\ Cardinality(winners' \ winners) <= 1
                /\ winners' # winners =>
                      /\ req[w].pc = "insert"
                      /\ req'[w].pc = "done"
                      /\ req'[w].outcome = "won" ]_vars

\* A draw has added its row while the events and participants tables hold
\* rows it could have touched.
C18_Witness ==
    \E w \in Workers :
        /\ Finished(w, "draw")
        /\ req[w].outcome = "won"
        /\ RowsOfPrize(winners, req[w].event_id, req[w].prize_name) # {}
        /\ Cardinality(participants) = 2
        /\ Cardinality(events) = 2


\* C19: every execute_query call that opened a connection has closed it when
\* it returns or raises, on every exit path; whenever a worker is not inside
\* a call, no connection it opened is still open.
C19_ConnectionClosedOnEveryExit ==
    \A w \in Workers :
        call[w].pc \in {"idle", "returned", "raised"} =>
            /\ call[w].conn # "open"
            /\ (call[w].pc = "returned") => call[w].conn = "closed"

\* A call has raised after a storage error on an open connection, rollback
\* included, and its connection is closed.
C19_Witness ==
    \E w \in Workers :
        /\ call[w].pc = "raised"
        /\ call[w].error \in {"pymysql", "rollback"}
        /\ call[w].conn = "closed"


\* C20: deletions touch only their target. A step of delete-event for E leaves
\* the events, participants and winners rows of every other event as they
\* are; a step of delete-participant(E, X) leaves every participants row other
\* than X's and every winners row not naming X as they are, and changes no
\* table at all when X is not a participant of E.
C20_DeletionsTouchOnlyTheirTarget ==
    [][ \A w \in Workers :
          LET E == req'[w].event_id
              X == req'[w].participant_id
              OfOthers(rows) == {r \in rows : r.event_id # E}
              NotOfX(rows) == {r \in rows : r.participant_id # X}
          IN  /\ ( /\ req'[w] # req[w]
                   /\ req'[w].op = "delete_event" )
                 => /\ OfOthers(events') = OfOthers(events)
                    /\ OfOthers(participants') = OfOthers(participants)
                    /\ OfOthers(winners') = OfOthers(winners)
              /\ ( /\ req'[w] # req[w]
                   /\ req'[w].op = "delete_participant" )
                 => /\ events' = events
                    /\ NotOfX(participants') = NotOfX(participants)
                    /\ NotOfX(winners') = NotOfX(winners)
                    /\ (~ \E p \in participants :
                             p.participant_id = X /\ p.event_id = E)
                       => Tables' = Tables ]_vars

\* A participant has been deleted while another participant of the same
\* event keeps its winners row.
C20_Witness ==
    \E w \in Workers :
        /\ Finished(w, "delete_participant")
        /\ req[w].outcome = "deleted"
        /\ nextParticipantId > req[w].participant_id
        /\ \A p \in participants : p.participant_id # req[w].participant_id
        /\ \E r \in winners :
              /\ r.event_id = req[w].event_id
              /\ r.participant_id # req[w].participant_id

====
